---- MODULE Spec2Model ----
(***************************************************************************)
(* A model of pyrseas/dbobject/operator.py: the Operator entity and the    *)
(* OperatorDict collection with its two loaders (_from_catalog, from_map), *)
(* its lookup (find), the definition generator (create) and the dependency *)
(* extractor (get_implied_deps).                                           *)
(*                                                                         *)
(* A Python string is a sequence of atoms.  The delimiters the code looks  *)
(* for (" ", ",", "(", ")", ".") are atoms of their own; every other atom  *)
(* is an opaque fragment that holds no delimiter.  An object with dynamic  *)
(* attributes is a function from attribute names to values: an attribute   *)
(* is present iff its name is in the DOMAIN.  A Python dict is a function  *)
(* from its keys.  A value that is an object or None is a set with one or  *)
(* no element.                                                             *)
(***************************************************************************)
EXTENDS Integers, Sequences, FiniteSets, TLC

VARIABLES
    opers,      \* OperatorDict: the primary index, key tuple -> entity
    by_oid,     \* OperatorDict.by_oid: oid -> entity
    err,        \* the exception the last call raised, or NoError
    last,       \* the last call: its name, its arguments and what it returned
    types,      \* db.types: the keys (schema, name) of the sibling collection
    functions   \* db.functions: the keys (schema, name, arguments)

vars == <<opers, by_oid, err, last, types, functions>>

-----------------------------------------------------------------------------
(* Bounds of the model *)

MaxKeys == 2        \* keys of a desired-state map
MaxRows == 2        \* rows the catalog query returns

-----------------------------------------------------------------------------
(* Python's string and attribute primitives, as the code uses them *)

\* s.find(c) from position i: the 1-based place of the first c, 0 when there
\* is none (Python: 0-based, -1 when there is none)
RECURSIVE StrFind(_, _, _)
StrFind(s, c, i) ==
    IF i > Len(s) THEN 0
    ELSE IF s[i] = c THEN i
    ELSE StrFind(s, c, i + 1)

\* s.partition(sep): (head, sep, tail) at the first sep, else (s, '', '')
Partition(s, sep) ==
    LET i == StrFind(s, sep, 1)
    IN  IF i = 0 THEN <<s, <<>>, <<>>>>
        ELSE <<SubSeq(s, 1, i - 1), <<sep>>, SubSeq(s, i + 1, Len(s))>>

\* s.split(c): the pieces between every occurrence of c
RECURSIVE Split(_, _)
Split(s, c) ==
    LET i == StrFind(s, c, 1)
    IN  IF i = 0 THEN <<s>>
        ELSE <<SubSeq(s, 1, i - 1)>> \o Split(SubSeq(s, i + 1, Len(s)), c)

\* s.lstrip(): s without its leading whitespace
RECURSIVE LStrip(_)
LStrip(s) ==
    IF s # <<>> /\ s[1] = " " THEN LStrip(Tail(s)) ELSE s

\* sep.join(list)
RECURSIVE Join(_, _)
Join(sep, list) ==
    IF list = <<>> THEN <<>>
    ELSE IF Len(list) = 1 THEN list[1]
    ELSE list[1] \o sep \o Join(sep, Tail(list))

\* s[-1:]: the last character, '' for the empty string
LastChar(s) == IF s = <<>> THEN <<>> ELSE <<s[Len(s)]>>

\* hasattr(obj, a)
HasAttr(obj, a) == a \in DOMAIN obj

\* del obj.a
DelAttr(obj, a) == [b \in DOMAIN obj \ {a} |-> obj[b]]

\* setattr(obj, a, val) for every (a, val) of attrs
SetAttrs(obj, attrs) ==
    [a \in DOMAIN obj \cup DOMAIN attrs |->
        IF a \in DOMAIN attrs THEN attrs[a] ELSE obj[a]]

EmptyDict == [k \in {} |-> TRUE]

\* d[k] = v
DictPut(d, k, v) == [j \in DOMAIN d \cup {k} |-> IF j = k THEN v ELSE d[j]]

-----------------------------------------------------------------------------
(* The Operator entity *)

keylist == <<"schema", "name", "leftarg", "rightarg">>

NONE == <<"NONE">>
Public == <<"public">>

\* DbObject.__init__(**attrs): the attributes given become the entity's; a
\* hashes or merges flag that is false is not stored
OperatorInit(attrs) ==
    [a \in {b \in DOMAIN attrs :
                ~(b \in {"hashes", "merges"} /\ attrs[b] = FALSE)} |-> attrs[a]]

\* DbObject.key(): the tuple of the keylist attributes
Key(obj) == [i \in 1..Len(keylist) |-> obj[keylist[i]]]

\* DbObject.objtype, lower-cased
ObjTypeLower == <<"operator">>

ExternKey(obj) ==
    ObjTypeLower \o <<" ">> \o obj.name \o <<"(">> \o obj.leftarg
        \o <<",", " ">> \o obj.rightarg \o <<")">>

\* quote_id(name): a name that is no plain lower-case identifier is put in
\* double quotes
PlainIdentifiers == {Public, <<"s1">>}
QuoteId(name) ==
    IF name \in PlainIdentifiers THEN name ELSE <<"\"">> \o name \o <<"\"">>

\* split_schema_obj(obj, sch): (schema, name) of a possibly qualified name;
\* an unqualified one is in sch, or in 'public' when sch is None (here <<>>)
SplitSchemaObj(obj, sch) ==
    LET i == StrFind(obj, ".", 1)
    IN  IF i # 0 THEN <<SubSeq(obj, 1, i - 1), SubSeq(obj, i + 1, Len(obj))>>
        ELSE <<IF sch = <<>> THEN Public ELSE sch, obj>>

Qualname(obj) ==
    IF obj.schema = Public /\ obj.name # <<>> THEN obj.name
    ELSE QuoteId(obj.schema) \o <<".">> \o obj.name

FlagPresent(obj, flag) == HasAttr(obj, flag)

\* hasattr(self, flag) and self.flag
FlagSet(obj, flag) == HasAttr(obj, flag) /\ obj[flag] = TRUE

\* Operator.create, without the statements its decorators append: the list
\* holding the one CREATE OPERATOR statement
Create(obj) ==
    LET c1 == IF obj.leftarg # NONE
              THEN << <<"LEFTARG = ">> \o obj.leftarg >> ELSE <<>>
        c2 == IF obj.rightarg # NONE
              THEN << <<"RIGHTARG = ">> \o obj.rightarg >> ELSE <<>>
        c3 == IF HasAttr(obj, "commutator")
              THEN << <<"COMMUTATOR = OPERATOR(">> \o obj.commutator \o <<")">> >>
              ELSE <<>>
        c4 == IF HasAttr(obj, "negator")
              THEN << <<"NEGATOR = OPERATOR(">> \o obj.negator \o <<")">> >>
              ELSE <<>>
        c5 == IF HasAttr(obj, "restrict")
              THEN << <<"RESTRICT = ">> \o obj.restrict >> ELSE <<>>
        c6 == IF HasAttr(obj, "join")
              THEN << <<"JOIN = ">> \o obj.join >> ELSE <<>>
        c7 == IF FlagSet(obj, "hashes") THEN << <<"HASHES">> >> ELSE <<>>
        c8 == IF FlagSet(obj, "merges") THEN << <<"MERGES">> >> ELSE <<>>
        opt_clauses == c1 \o c2 \o c3 \o c4 \o c5 \o c6 \o c7 \o c8
    IN  << <<"CREATE OPERATOR ">> \o Qualname(obj)
              \o <<" (\n    ", "PROCEDURE = ">> \o obj.procedure
              \o (IF opt_clauses # <<>> THEN <<",\n    ">> ELSE <<>>)
              \o Join(<<",\n    ">>, opt_clauses) \o <<")">> >>

-----------------------------------------------------------------------------
(* Operator.get_implied_deps *)

TypeObj(k) == [kind |-> "type", key |-> k]
FuncObj(k) == [kind |-> "function", key |-> k]
SchemaObj(name) == [kind |-> "schema", key |-> <<name>>]

\* db.types.find(name): the type of that name, or None
TypesFind(tps, name) ==
    LET k == SplitSchemaObj(name, <<>>)
    IN  IF k \in tps THEN {TypeObj(k)} ELSE {}

RestrictArgs ==
    <<"internal", ",", " ", "oid", ",", " ", "internal", ",", " ", "integer">>

FuncArgsWithNone(obj) == Join(<<",", " ">>, <<obj.leftarg, obj.rightarg>>)

\* ', '.join(t for t in [self.leftarg, self.rightarg] if t != 'NONE')
FuncArgs(obj) ==
    Join(<<",", " ">>,
         SelectSeq(<<obj.leftarg, obj.rightarg>>, LAMBDA t : t # NONE))

\* deps is what DbSchemaObject.get_implied_deps returned
GetImpliedDeps(obj, tps, funcs, deps) ==
    LET leftarg == TypesFind(tps, obj.leftarg)
        rightarg == TypesFind(tps, obj.rightarg)
        f == SplitSchemaObj(obj.procedure, obj.schema)
        fargs == FuncArgs(obj)
        fkey == <<f[1], f[2], fargs>>
        func == IF fkey \in funcs THEN {FuncObj(fkey)} ELSE {}
        r == SplitSchemaObj(obj.restrict, <<>>)
        rkey == <<r[1], r[2], RestrictArgs>>
        rfunc == IF HasAttr(obj, "restrict") /\ obj.restrict # <<>>
                    /\ rkey \in funcs
                 THEN {FuncObj(rkey)} ELSE {}
    IN  deps \cup leftarg \cup rightarg \cup func \cup rfunc

-----------------------------------------------------------------------------
(* OperatorDict._from_catalog *)

\* lft, rgt after "if lft == '-': lft = oper.leftarg = 'NONE'" and its twin:
\* the key the row is indexed under
CatalogKeyAsFetched(oper) == Key(oper)
CatalogKey(oper) ==
    LET k == Key(oper)
    IN  <<k[1], k[2], IF k[3] = <<"-">> THEN NONE ELSE k[3],
          IF k[4] = <<"-">> THEN NONE ELSE k[4]>>

\* oper.leftarg, oper.rightarg after the same two statements
CatalogOperands(oper) ==
    LET k == Key(oper)
        o1 == IF k[3] = <<"-">> THEN [oper EXCEPT !.leftarg = NONE] ELSE oper
    IN  IF k[4] = <<"-">> THEN [o1 EXCEPT !.rightarg = NONE] ELSE o1

DropSentinelsButNegator(oper) ==
    LET o1 == IF oper.commutator = <<"0">>
              THEN DelAttr(oper, "commutator") ELSE oper
        o3 == IF o1.restrict = <<"-">> THEN DelAttr(o1, "restrict") ELSE o1
    IN  IF o3.join = <<"-">> THEN DelAttr(o3, "join") ELSE o3

\* the four "if oper.x == sentinel: del oper.x"
DropSentinels(oper) ==
    LET o1 == IF oper.commutator = <<"0">>
              THEN DelAttr(oper, "commutator") ELSE oper
        o2 == IF o1.negator = <<"0">> THEN DelAttr(o1, "negator") ELSE o1
        o3 == IF o2.restrict = <<"-">> THEN DelAttr(o2, "restrict") ELSE o2
    IN  IF o3.join = <<"-">> THEN DelAttr(o3, "join") ELSE o3

FromCatalogRowStoresFetched(d, oper) ==
    LET new == DropSentinels(CatalogOperands(oper))
    IN  [opers |-> DictPut(d.opers, CatalogKey(oper), new),
         by_oid |-> DictPut(d.by_oid, oper.oid, new)]

\* the body of the loop of _from_catalog: one fetched row into both indexes
FromCatalogRow(d, oper) ==
    LET oid == oper.oid
        new == OperatorInit(DropSentinels(CatalogOperands(oper)))
    IN  [opers |-> DictPut(d.opers, CatalogKey(oper), new),
         by_oid |-> DictPut(d.by_oid, oid, new)]

\* for oper in self.fetch(): ...
RECURSIVE FromCatalogLoop(_, _, _)
FromCatalogLoop(d, rows, i) ==
    IF i > Len(rows) THEN d
    ELSE FromCatalogLoop(FromCatalogRow(d, rows[i]), rows, i + 1)

-----------------------------------------------------------------------------
(* OperatorDict.from_map *)

NoError == "none"
ErrKey == "KeyError: Unrecognized object type"
ErrSig == "KeyError: Invalid operator signature"
ErrUnpack == "ValueError: values to unpack"
ErrNoSpec == "ValueError: Operator has no specification"

BadTagBoth(objtype, spc) == spc # <<" ">> /\ objtype # <<"operator">>

\* spc != ' ' or objtype != 'operator'
BadTag(objtype, spc) == spc # <<" ">> \/ objtype # <<"operator">>

\* the body of the loop of from_map: one key of the map and its
\* specification; an exception leaves the collection as it is at the raise
FromMapKey(d, schema, key, inoper) ==
    LET p == Partition(key, " ")
        objtype == p[1]
        spc == p[2]
        opr == p[3]
        paren == StrFind(opr, "(", 1)
        parts == Split(SubSeq(opr, paren + 1, Len(opr) - 1), ",")
        leftarg == parts[1]
        rightarg == LStrip(parts[2])
        name == SubSeq(opr, 1, paren - 1)
        oper == OperatorInit([schema |-> schema, name |-> name,
                              leftarg |-> leftarg, rightarg |-> rightarg])
        k == <<schema, name, leftarg, rightarg>>
        o1 == SetAttrs(oper, inoper)
        o2 == IF HasAttr(inoper, "oldname")
              THEN SetAttrs(o1, [oldname |-> inoper.oldname]) ELSE o1
        o3 == IF HasAttr(inoper, "description")
              THEN SetAttrs(o2, [description |-> inoper.description]) ELSE o2
    IN  IF BadTag(objtype, spc)
        THEN [opers |-> d, err |-> ErrKey]
        ELSE IF paren = 0 \/ LastChar(opr) # <<")">>
        THEN [opers |-> d, err |-> ErrSig]
        ELSE IF Len(parts) # 2
        THEN [opers |-> d, err |-> ErrUnpack]
        ELSE IF DOMAIN inoper = {}
        THEN [opers |-> DictPut(d, k, oper), err |-> ErrNoSpec]
        ELSE [opers |-> DictPut(d, k, o3), err |-> NoError]

\* for key in inopers: ...; done counts the keys processed to the end
RECURSIVE FromMapLoop(_, _, _, _)
FromMapLoop(d, schema, inopers, i) ==
    IF i > Len(inopers) THEN [opers |-> d, err |-> NoError, done |-> i - 1]
    ELSE LET r == FromMapKey(d, schema, inopers[i].key, inopers[i].spec)
         IN  IF r.err # NoError
             THEN [opers |-> r.opers, err |-> r.err, done |-> i - 1]
             ELSE FromMapLoop(r.opers, schema, inopers, i + 1)

-----------------------------------------------------------------------------
(* OperatorDict.find *)

\* s.rfind(c): the 1-based place of the last c at or before i, 0 when none
RECURSIVE StrRFind(_, _, _)
StrRFind(s, c, i) ==
    IF i < 1 THEN 0
    ELSE IF s[i] = c THEN i
    ELSE StrRFind(s, c, i - 1)

\* split_func_args(obj): the name before the first '(' and the list of the
\* arguments between it and the last ')', split on ',' by the rules of the
\* key parser of from_map
SplitFuncArgs(obj) ==
    LET off1 == StrFind(obj, "(", 1)
        off2 == StrRFind(obj, ")", Len(obj))
        args == Split(SubSeq(obj, off1 + 1, off2 - 1), ",")
    IN  IF off1 = 0 \/ off2 = 0 THEN <<obj, << <<>> >> >>
        ELSE <<SubSeq(obj, 1, off1 - 1),
               [i \in 1..Len(args) |->
                    IF i = 1 THEN args[i] ELSE LStrip(args[i])]>>

FindBySubscript(d, oper) ==
    LET s == SplitSchemaObj(oper, <<>>)
        fa == SplitFuncArgs(s[2])
        k == <<s[1], fa[1]>> \o fa[2]
    IN  IF k \in DOMAIN d THEN [found |-> {d[k]}, raised |-> NoError]
        ELSE [found |-> {}, raised |-> "KeyError"]

\* found is what self.get(key) returns: the entity, or None
Find(d, oper) ==
    LET s == SplitSchemaObj(oper, <<>>)
        fa == SplitFuncArgs(s[2])
        k == <<s[1], fa[1]>> \o fa[2]
    IN  [found |-> IF k \in DOMAIN d THEN {d[k]} ELSE {}, raised |-> NoError]

-----------------------------------------------------------------------------
(* The inputs the loaders are given *)

Schemas == {Public, <<"s1">>}
Box == <<"box">>

\* the rows of the catalog query: every column of OperatorDict.query; the
\* catalog writes '-' for a missing operand, restrict or join and '0' for a
\* missing commutator or negator; an operator has at least one operand
RowOptions ==
    { [commutator |-> c, negator |-> n, restrict |-> r, join |-> j,
       hashes |-> h, merges |-> m] :
        <<c, n, r, j, h, m>> \in
            { << <<"0">>, <<"0">>, <<"-">>, <<"-">>, FALSE, FALSE >>,
              << <<"=">>, <<"<>">>, <<"eqsel">>, <<"eqjoinsel">>, TRUE, TRUE >>,
              << <<"=">>, <<"0">>, <<"eqsel">>, <<"-">>, TRUE, FALSE >>,
              << <<"0">>, <<"<>">>, <<"-">>, <<"eqjoinsel">>, FALSE, TRUE >> } }

RowChoices ==
    { SetAttrs([schema |-> s, name |-> <<"+">>, owner |-> <<"postgres">>,
                leftarg |-> l, rightarg |-> r, procedure |-> <<"f">>,
                description |-> <<"d">>], o) :
        s \in Schemas, o \in RowOptions,
        <<l, r>> \in { <<Box, Box>>, << <<"-">>, Box >>, << Box, <<"-">> >> } }

\* the result sets of n rows: the catalog holds one operator per (schema,
\* name, leftarg, rightarg)
RowSets(n) ==
    { g \in [1..n -> RowChoices] :
        \A i, j \in 1..n : i # j => Key(g[i]) # Key(g[j]) }

\* the rows as fetched: each with its own oid
Fetch(g) == [i \in 1..Len(g) |-> SetAttrs(g[i], [oid |-> i])]

\* the operators a desired-state document names
Identities ==
    { [name |-> <<"+">>, leftarg |-> Box, rightarg |-> Box],
      [name |-> <<"+">>, leftarg |-> NONE, rightarg |-> Box],
      [name |-> <<"+">>, leftarg |-> Box, rightarg |-> NONE],
      [name |-> <<"@>">>, leftarg |-> <<"character", " ", "varying">>,
       rightarg |-> Box],
      [name |-> <<"+">>, leftarg |-> <<"\"a", ",", "b\"">>, rightarg |-> Box] }

\* the keys of a desired-state map: the external keys of the operators, a key
\* written without the space after the comma, and malformed keys
MapKeys ==
    { ExternKey(e) : e \in Identities }
    \cup { <<"operator", " ", "@>", "(", "box", ",", "box", ")">>,
           <<"function", " ", "foo", "(", "int", ",", "int", ")">>,
           <<"operator">>,
           <<"operator", " ", "+", "(", "box", ",", " ", "box">>,
           <<"operator", " ", "+">> }

\* the specifications of a desired-state map; the empty one stands for an
\* empty map and for a missing value (None) alike
MapSpecs ==
    { EmptyDict,
      [procedure |-> <<"f">>],
      [procedure |-> <<"s1", ".", "f">>, commutator |-> <<"=">>,
       restrict |-> <<"eqsel">>, hashes |-> TRUE, merges |-> FALSE],
      [procedure |-> <<"f">>, negator |-> <<"<>">>, join |-> <<"eqjoinsel">>,
       hashes |-> FALSE, merges |-> TRUE, oldname |-> <<"old">>,
       description |-> <<"d">>],
      [procedure |-> <<"f">>, leftarg |-> <<"int">>] }

MapEntries == { [key |-> k, spec |-> s] : k \in MapKeys, s \in MapSpecs }

\* the maps of n keys, in iteration order
InputMaps(n) ==
    { g \in [1..n -> MapEntries] :
        \A i, j \in 1..n : i # j => g[i].key # g[j].key }

-----------------------------------------------------------------------------
(* The collection's life: constructed empty, then filled by one loader *)

Init ==
    /\ opers = EmptyDict
    /\ by_oid = EmptyDict
    /\ err = NoError
    /\ last = [op |-> "new"]
    /\ types = {}
    /\ functions = {}

\* OperatorDict(dbconn): the constructor runs _from_catalog on the empty
\* collection
FromCatalog ==
    /\ last.op = "new"
    /\ \E n \in 1..MaxRows : \E g \in RowSets(n) :
        LET rows == Fetch(g)
            d == FromCatalogLoop([opers |-> opers, by_oid |-> by_oid], rows, 1)
        IN  /\ opers' = d.opers
            /\ by_oid' = d.by_oid
            /\ last' = [op |-> "from_catalog", rows |-> rows]
    /\ UNCHANGED <<err, types, functions>>

\* OperatorDict().from_map(schema, inopers)
FromMap ==
    /\ last.op = "new"
    /\ \E schema \in Schemas, n \in 1..MaxKeys : \E inopers \in InputMaps(n) :
        LET r == FromMapLoop(opers, schema, inopers, 1)
        IN  /\ opers' = r.opers
            /\ err' = r.err
            /\ last' = [op |-> "from_map", schema |-> schema,
                        inopers |-> inopers, done |-> r.done]
    /\ UNCHANGED <<by_oid, types, functions>>

\* the signatures find is asked for
MkSig(schema, name, leftarg, rightarg, sep) ==
    (IF schema = <<>> THEN <<>> ELSE schema \o <<".">>)
        \o name \o <<"(">> \o leftarg \o sep \o rightarg \o <<")">>

Signatures ==
    { MkSig(s, <<"+">>, l, r, <<",">>) :
        s \in Schemas \cup {<<>>}, l \in {NONE, Box}, r \in {NONE, Box} }
    \cup { MkSig(s, <<"@>">>, <<"character", " ", "varying">>, Box, sep) :
            s \in Schemas \cup {<<>>}, sep \in {<<",">>, <<",", " ">>} }

\* find(oper) on a loaded collection.  find and create leave the collection
\* as it is, so a call after another find or create reaches no state that the
\* same call right after the load does not reach
DoFind ==
    /\ last.op \in {"from_catalog", "from_map"}
    /\ err = NoError
    /\ \E sig \in Signatures :
        LET r == Find(opers, sig)
        IN  /\ last' = [op |-> "find", sig |-> sig, result |-> r.found]
            /\ err' = r.raised
    /\ UNCHANGED <<opers, by_oid, types, functions>>

\* create() of an entity of a loaded collection
DoCreate ==
    /\ last.op \in {"from_catalog", "from_map"}
    /\ err = NoError
    /\ \E k \in DOMAIN opers :
        last' = [op |-> "create", entity |-> opers[k],
                 stmts |-> Create(opers[k])]
    /\ UNCHANGED <<opers, by_oid, err, types, functions>>

Next == FromCatalog \/ FromMap \/ DoFind \/ DoCreate

Spec == Init /\ [][Next]_vars

-----------------------------------------------------------------------------
(* The dependency extractor, on its own: an entity and the sibling          *)
(* collections of the database it is resolved against                       *)

TypeKeys == { <<Public, Box>>, << <<"s1">>, Box >> }

FuncKeys ==
    { <<Public, <<"f">>, <<"box", ",", " ", "box">> >>,
      <<Public, <<"f">>, Box>>,
      <<Public, <<"f">>, <<>> >>,
      << <<"s1">>, <<"f">>, <<"box", ",", " ", "box">> >>,
      << <<"s1">>, <<"f">>, <<>> >>,
      <<Public, <<"eqsel">>, RestrictArgs>>,
      << <<"s1">>, <<"sel">>, RestrictArgs>> }

DepOperands == {NONE, Box, <<"s1", ".", "box">>}

DepEntities ==
    { OperatorInit(SetAttrs([schema |-> s, name |-> <<"+">>, leftarg |-> l,
                             rightarg |-> r, procedure |-> p], o)) :
        s \in Schemas, l \in DepOperands, r \in DepOperands,
        p \in {<<"f">>, <<"s1", ".", "f">>},
        o \in {EmptyDict, [restrict |-> <<"eqsel">>],
               [restrict |-> <<"s1", ".", "sel">>]} }

InitDeps ==
    /\ opers = EmptyDict
    /\ by_oid = EmptyDict
    /\ err = NoError
    /\ last = [op |-> "new"]
    /\ types \in SUBSET TypeKeys
    /\ functions \in SUBSET FuncKeys

\* obj.get_implied_deps(db); base is what the inherited method found: the
\* entity's schema when the database tracks it.  The call changes nothing it
\* reads, so a second call reaches no state the first does not reach
DoGetImpliedDeps ==
    /\ last.op = "new"
    /\ \E obj \in DepEntities :
        \E base \in {{}, {SchemaObj(obj.schema)}} :
            last' = [op |-> "get_implied_deps", entity |-> obj, base |-> base,
                     deps |-> GetImpliedDeps(obj, types, functions, base)]
    /\ UNCHANGED <<opers, by_oid, err, types, functions>>

NextDeps == DoGetImpliedDeps

SpecDeps == InitDeps /\ [][NextDeps]_vars

-----------------------------------------------------------------------------
(* Properties *)

\* text holds the atom a
HasAtom(text, a) == \E p \in 1..Len(text) : text[p] = a

\* the atoms of text right after place p spell val
Follows(text, p, val) ==
    /\ p + Len(val) <= Len(text)
    /\ SubSeq(text, p + 1, p + Len(val)) = val

\* what the catalog's operand column stands for
Operand(v) == IF v = <<"-">> THEN NONE ELSE v

\* C1: round trip.  Loading the one-entry map {extern_key(e): non-empty
\* specification} under e's schema raises nothing and stores exactly one
\* entity, under the key (e.schema, e.name, e.leftarg, e.rightarg).
C1_RoundTrip ==
    \A e \in Identities, s \in Schemas, sp \in MapSpecs \ {EmptyDict} :
        ( /\ last.op = "from_map"
          /\ last.schema = s
          /\ last.inopers = << [key |-> ExternKey(e), spec |-> sp] >> )
        => /\ err = NoError
           /\ DOMAIN opers = { <<s, e.name, e.leftarg, e.rightarg>> }

\* C2: after _from_catalog the entity of every row carries hashes (merges)
\* iff the row's value is true, and then with the value true; a false flag
\* is absent, not present and false.
C2_FlagsOnlyIfTrue ==
    last.op = "from_catalog" =>
        \A i \in 1..Len(last.rows) :
            LET row == last.rows[i]
                k == <<row.schema, row.name,
                       Operand(row.leftarg), Operand(row.rightarg)>>
            IN  \A obj \in {by_oid[row.oid], opers[k]} :
                    \A flag \in {"hashes", "merges"} :
                        /\ HasAttr(obj, flag) <=> row[flag] = TRUE
                        /\ HasAttr(obj, flag) => obj[flag] = TRUE

C2_Witness ==
    /\ last.op = "from_catalog"
    /\ \E i \in 1..Len(last.rows) :
        /\ last.rows[i].hashes = FALSE
        /\ last.rows[i].merges = TRUE
        /\ ~HasAttr(by_oid[last.rows[i].oid], "hashes")
        /\ HasAttr(by_oid[last.rows[i].oid], "merges")

\* C3: when from_map raises the Empty-Specification error, the collection
\* holds no entry under the key of the operator whose specification is empty.
C3_NoEntryForEmptySpec ==
    (last.op = "from_map" /\ err = ErrNoSpec) =>
        \A e \in Identities :
            last.inopers[last.done + 1].key = ExternKey(e)
            => <<last.schema, e.name, e.leftarg, e.rightarg>> \notin DOMAIN opers

\* C4: a row whose left (right) operand is '-' is stored with that field
\* 'NONE', under a key whose component is 'NONE', and create emits no LEFTARG
\* (RIGHTARG) clause for it; any other operand is kept and its clause emitted.
\* No key of the collection holds '-'.
C4_DashBecomesNone ==
    last.op = "from_catalog" =>
        /\ \A k \in DOMAIN opers : k[3] # <<"-">> /\ k[4] # <<"-">>
        /\ \A i \in 1..Len(last.rows) :
            LET row == last.rows[i]
                obj == by_oid[row.oid]
                k == <<row.schema, row.name,
                       Operand(row.leftarg), Operand(row.rightarg)>>
                text == Create(obj)[1]
            IN  /\ obj.leftarg = Operand(row.leftarg)
                /\ obj.rightarg = Operand(row.rightarg)
                /\ k \in DOMAIN opers
                /\ opers[k] = obj
                /\ HasAtom(text, "LEFTARG = ") <=> row.leftarg # <<"-">>
                /\ HasAtom(text, "RIGHTARG = ") <=> row.rightarg # <<"-">>
                /\ \A p \in 1..Len(text) :
                    /\ text[p] = "LEFTARG = " => Follows(text, p, row.leftarg)
                    /\ text[p] = "RIGHTARG = " => Follows(text, p, row.rightarg)

C4_Witness ==
    /\ last.op = "from_catalog"
    /\ \E i \in 1..Len(last.rows) :
        /\ last.rows[i].leftarg = <<"-">>
        /\ last.rows[i].rightarg = Box
        /\ by_oid[last.rows[i].oid].leftarg = NONE
        /\ <<last.rows[i].schema, last.rows[i].name, NONE, Box>> \in DOMAIN opers

\* C5: after _from_catalog an entity has commutator (negator) iff the row's
\* value is not '0' and restrict (join) iff the row's value is not '-', each
\* with the row's value; create then never writes OPERATOR(0) or a '-'
\* function.
C5_SentinelsAbsent ==
    last.op = "from_catalog" =>
        \A i \in 1..Len(last.rows) :
            LET row == last.rows[i]
                obj == by_oid[row.oid]
                text == Create(obj)[1]
                Kept(attr, sentinel) ==
                    /\ HasAttr(obj, attr) <=> row[attr] # sentinel
                    /\ HasAttr(obj, attr) => obj[attr] = row[attr]
            IN  /\ Kept("commutator", <<"0">>)
                /\ Kept("negator", <<"0">>)
                /\ Kept("restrict", <<"-">>)
                /\ Kept("join", <<"-">>)
                /\ \A p \in 1..Len(text) :
                    /\ text[p] \in {"COMMUTATOR = OPERATOR(", "NEGATOR = OPERATOR("}
                        => ~Follows(text, p, <<"0">>)
                    /\ text[p] \in {"RESTRICT = ", "JOIN = "}
                        => ~Follows(text, p, <<"-">>)

C5_Witness ==
    /\ last.op = "from_catalog"
    /\ \E i \in 1..Len(last.rows) :
        /\ last.rows[i].commutator = <<"=">>
        /\ last.rows[i].negator = <<"0">>
        /\ last.rows[i].restrict = <<"eqsel">>
        /\ last.rows[i].join = <<"-">>
        /\ DOMAIN by_oid[last.rows[i].oid] \cap
                {"commutator", "negator", "restrict", "join"}
            = {"commutator", "restrict"}

\* the clauses of a CREATE OPERATOR statement, in their order
ClauseOrder ==
    <<"PROCEDURE = ", "LEFTARG = ", "RIGHTARG = ", "COMMUTATOR = OPERATOR(",
      "NEGATOR = OPERATOR(", "RESTRICT = ", "JOIN = ", "HASHES", "MERGES">>

IsClause(a) == \E i \in 1..Len(ClauseOrder) : ClauseOrder[i] = a
Rank(a) == CHOOSE i \in 1..Len(ClauseOrder) : ClauseOrder[i] = a

\* C6: create returns one CREATE OPERATOR statement; its clauses are in the
\* order of ClauseOrder, PROCEDURE first and always there, LEFTARG/RIGHTARG
\* iff the operand is not 'NONE', COMMUTATOR/NEGATOR/RESTRICT/JOIN iff the
\* attribute is present, HASHES/MERGES iff the flag is present and true, each
\* clause followed by the entity's value.
C6_ClauseOrder ==
    last.op = "create" =>
        LET obj == last.entity
            text == last.stmts[1]
            clauses == SelectSeq(text, IsClause)
            Value(attr) == IF HasAttr(obj, attr) THEN obj[attr] ELSE <<>>
        IN  /\ Len(last.stmts) = 1
            /\ text[1] = "CREATE OPERATOR "
            /\ clauses # <<>>
            /\ clauses[1] = "PROCEDURE = "
            /\ \A i \in 1..(Len(clauses) - 1) :
                Rank(clauses[i]) < Rank(clauses[i + 1])
            /\ HasAtom(text, "LEFTARG = ") <=> obj.leftarg # NONE
            /\ HasAtom(text, "RIGHTARG = ") <=> obj.rightarg # NONE
            /\ HasAtom(text, "COMMUTATOR = OPERATOR(") <=> HasAttr(obj, "commutator")
            /\ HasAtom(text, "NEGATOR = OPERATOR(") <=> HasAttr(obj, "negator")
            /\ HasAtom(text, "RESTRICT = ") <=> HasAttr(obj, "restrict")
            /\ HasAtom(text, "JOIN = ") <=> HasAttr(obj, "join")
            /\ HasAtom(text, "HASHES")
                <=> (HasAttr(obj, "hashes") /\ obj.hashes = TRUE)
            /\ HasAtom(text, "MERGES")
                <=> (HasAttr(obj, "merges") /\ obj.merges = TRUE)
            /\ \A p \in 1..Len(text) :
                /\ text[p] = "PROCEDURE = " => Follows(text, p, obj.procedure)
                /\ text[p] = "LEFTARG = " => Follows(text, p, obj.leftarg)
                /\ text[p] = "RIGHTARG = " => Follows(text, p, obj.rightarg)
                /\ text[p] = "COMMUTATOR = OPERATOR("
                    => Follows(text, p, Value("commutator"))
                /\ text[p] = "NEGATOR = OPERATOR("
                    => Follows(text, p, Value("negator"))
                /\ text[p] = "RESTRICT = " => Follows(text, p, Value("restrict"))
                /\ text[p] = "JOIN = " => Follows(text, p, Value("join"))

C6_Witness ==
    /\ last.op = "create"
    /\ last.entity.leftarg = NONE
    /\ HasAttr(last.entity, "negator")
    /\ HasAttr(last.entity, "hashes")
    /\ last.entity.hashes = FALSE
    /\ SelectSeq(last.stmts[1], IsClause)
        = <<"PROCEDURE = ", "RIGHTARG = ", "NEGATOR = OPERATOR(", "JOIN = ",
            "MERGES">>

\* key starts with the tag 'operator' and a space
StartsWithTag(key) == Len(key) >= 2 /\ key[1] = "operator" /\ key[2] = " "

\* key has the tag, and what follows it has no '(' or does not end with ')'
BadSignature(key) ==
    /\ StartsWithTag(key)
    /\ LET rest == SubSeq(key, 3, Len(key))
       IN  \/ ~HasAtom(rest, "(")
           \/ rest = <<>>
           \/ rest[Len(rest)] # ")"

\* C7: when from_map comes to a key without the tag it raises the
\* Malformed-Key error, and to a key with a bad signature the
\* Malformed-Signature error; the load stops there: the key is not processed
\* to the end, and the collection holds no more entries than keys before it.
C7_MalformedKeyAborts ==
    last.op = "from_map" =>
        \A i \in 1..Len(last.inopers) :
            last.done >= i - 1 =>
                LET key == last.inopers[i].key
                IN  /\ ~StartsWithTag(key) =>
                        /\ err = ErrKey
                        /\ last.done = i - 1
                        /\ Cardinality(DOMAIN opers) <= i - 1
                    /\ BadSignature(key) =>
                        /\ err = ErrSig
                        /\ last.done = i - 1
                        /\ Cardinality(DOMAIN opers) <= i - 1

C7_Witness ==
    /\ last.op = "from_map"
    /\ Len(last.inopers) = 2
    /\ ~StartsWithTag(last.inopers[1].key)
    /\ \E e \in Identities : last.inopers[2].key = ExternKey(e)
    /\ last.inopers[2].spec # EmptyDict
    /\ err = ErrKey
    /\ opers = EmptyDict

\* what get_implied_deps is to add to the base set
ImpliedOf(obj) ==
    LET proc == SplitSchemaObj(obj.procedure, obj.schema)
        argtypes ==
            IF obj.leftarg = NONE /\ obj.rightarg = NONE THEN <<>>
            ELSE IF obj.leftarg = NONE THEN obj.rightarg
            ELSE IF obj.rightarg = NONE THEN obj.leftarg
            ELSE obj.leftarg \o <<",", " ">> \o obj.rightarg
        restr == SplitSchemaObj(obj.restrict, <<>>)
    IN  { TypeObj(k) : k \in { t \in types :
            \E a \in {obj.leftarg, obj.rightarg} : TypesFind({t}, a) # {} } }
        \cup { FuncObj(k) : k \in { f \in functions :
            \/ f = <<proc[1], proc[2], argtypes>>
            \/ /\ HasAttr(obj, "restrict")
               /\ f = <<restr[1], restr[2], RestrictArgs>> } }

C8_DepsState ==
    last.op = "get_implied_deps" =>
        /\ last.deps = last.base \cup ImpliedOf(last.entity)
        /\ last.entity \notin last.deps
        /\ err = NoError

\* C8: get_implied_deps returns the base set plus exactly the types found for
\* the operands, the function stored under the procedure's schema, name and
\* the operands other than 'NONE' joined with ', ', and, with restrict
\* present, the function stored under restrict's schema and name and
\* 'internal, oid, internal, integer'; a miss adds nothing and raises
\* nothing, the entity is not in the result, and neither sibling collection
\* changes.
C8_ImpliedDeps ==
    [][ last'.op = "get_implied_deps" =>
            /\ types' = types
            /\ functions' = functions
            /\ C8_DepsState' ]_vars

C8_Witness ==
    /\ last.op = "get_implied_deps"
    /\ last.entity.leftarg = NONE
    /\ last.entity.rightarg = NONE
    /\ last.entity.schema = <<"s1">>
    /\ HasAttr(last.entity, "restrict")
    /\ types = TypeKeys
    /\ last.deps = { FuncObj(<< <<"s1">>, <<"f">>, <<>> >>),
                     FuncObj(<<Public, <<"eqsel">>, RestrictArgs>>) }

C9_FindState ==
    last.op = "find" =>
        /\ err = NoError
        /\ \A s \in Schemas \cup {<<>>}, n \in {<<"+">>, <<"@>">>},
              l \in {NONE, Box, <<"character", " ", "varying">>},
              r \in {NONE, Box}, sep \in {<<",">>, <<",", " ">>} :
            last.sig = MkSig(s, n, l, r, sep) =>
                LET k == <<IF s = <<>> THEN Public ELSE s, n, l, r>>
                IN  last.result = IF k \in DOMAIN opers THEN {opers[k]} ELSE {}

C10_KeyConsistent ==
    (last.op \in {"from_catalog", "from_map"} /\ err = NoError) =>
        \A k \in DOMAIN opers : Key(opers[k]) = k

====
